---- MODULE Spec2Model ----
(***************************************************************************)
(* A model of @authzed/animated-code-example-component (src/src/index.tsx):*)
(* the stepsForText tokenizer, the lookupDelays delay policy and the       *)
(* playback engine that AnimatedCodeExample starts from its useEffect.     *)
(*                                                                         *)
(* Strings are sequences of one-character strings.  An optional number     *)
(* (a field that may be undefined) is << >> when undefined and <<n>> when  *)
(* it is the number n.  The undefined StepTarget is the string             *)
(* "undefined".                                                            *)
(*                                                                         *)
(* Every `await` of the async function in runScript is a suspension point: *)
(* a run sits at the await (its pc) and one action resumes it and executes *)
(* the code up to the next await.  Which suspended run, host event or      *)
(* effect goes next is left open, which covers every timer order.          *)
(***************************************************************************)
EXTENDS Integers, Sequences, FiniteSets, TLC

VARIABLES
    monaco,          \* useMonaco() has returned the monaco instance
    isEditorReady,   \* useState(false), set by handleEditorMounted
    inView,          \* useInView({triggerOnce: true}).inView
    script,          \* props.script of the last render
    lastDeps,        \* the dependency array the effect last ran with (<< >>: never)
    nextId,          \* identity given to the next script object the host creates
    target,          \* useState<StepTarget | undefined>: the active-pane signal
    replContent,     \* useState(props.script.initialReplContent)
    browserContent,  \* useState(props.script.initialBrowserContent)
    editorDecorations, \* the decorations the editor holds (deltaDecorations)
    runs,            \* the started invocations of the async function of runScript
    mounted,         \* the component instance is mounted
    previous,        \* << >>, or <<what the instance mounted before this one left>>
    text,            \* stepsForText: its text argument
    startLineNumber, \* stepsForText: its optional startLineNumber argument
    startColumnIndex,\* stepsForText: its optional startColumnIndex argument
    tokTarget,       \* stepsForText: its target argument
    currentIndex,    \* stepsForText: the scan position (0-based, as in the code)
    steps,           \* stepsForText: the steps pushed so far
    tokState,        \* stepsForText: "scan", "returned" or the Error thrown
    delayStep,       \* lookupDelays: its step argument
    delaysResult     \* lookupDelays: << >> before the call, <<result>> after it

compVars == <<monaco, isEditorReady, inView, script, lastDeps, nextId,
              target, replContent, browserContent, editorDecorations, runs,
              mounted, previous>>
tokVars == <<text, startLineNumber, startColumnIndex, tokTarget,
             currentIndex, steps, tokState>>
polVars == <<delayStep, delaysResult>>
vars == <<compVars, tokVars, polVars>>

(***************************************************************************)
(* Bounds of the model.                                                    *)
(***************************************************************************)
MaxSteps == 2
MaxRuns == 2
MaxLen == 5
MaxValueLen == 2

(***************************************************************************)
(* Characters and strings.                                                 *)
(***************************************************************************)
NL == "\n"
SP == " "
\* The default paste delimiters (the characters U+00AB and U+00BB in the code).
leftPasteDel == "<"
rightPasteDel == ">"

Undefined == << >>
Some(n) == <<n>>
IsDefined(opt) == opt # Undefined
\* a ?? b
Coalesce(opt, dflt) == IF opt = Undefined THEN dflt ELSE opt[1]

\* String.prototype.trim().length === 0 over the characters of the model.
IsBlank(value) == \A k \in 1..Len(value) : value[k] \in {SP, NL}

(***************************************************************************)
(* DemoStepKind, StepTarget and the step shapes.                           *)
(***************************************************************************)
SLEEP == "SLEEP"
INSERT_TEXT == "INSERT_TEXT"
INSERT_NEWLINE == "INSERT_NEWLINE"
INSERT_PASTED_TEXT == "INSERT_PASTED_TEXT"
SET_BROWSER_CONTENT == "SET_BROWSER_CONTENT"

EDITOR == "EDITOR"
REPL == "REPL"
BROWSER == "BROWSER"
NoTarget == "undefined"

DeltaStep(kind, tgt, value, line, col) ==
    [kind |-> kind, target |-> tgt, value |-> value,
     startLineNumber |-> line, startColumnIndex |-> col, duration |-> 0]

SleepStep(duration) ==
    [kind |-> SLEEP, target |-> NoTarget, value |-> << >>,
     startLineNumber |-> Undefined, startColumnIndex |-> Undefined,
     duration |-> duration]

(***************************************************************************)
(* lookupDelays.                                                           *)
(***************************************************************************)
Delays(startDelay, endDelay) == [startDelay |-> startDelay, endDelay |-> endDelay]

PASTE_DELAYS == Delays(Some(300), Some(100))

DelayCharacters == {SP, NL, "(", ")"}

DELAY_CHARACTERS(c) ==
    CASE c = SP -> Delays(Undefined, Some(110))
      [] c = NL -> Delays(Undefined, Some(60))
      [] c = "(" -> Delays(Some(80), Some(60))
      [] c = ")" -> Delays(Some(80), Some(60))

\* lookupDelays without its test of the length of the value.
lookupDelaysByFirstCharacter(step) ==
    CASE step.kind = INSERT_NEWLINE -> DELAY_CHARACTERS(NL)
      [] step.kind = INSERT_PASTED_TEXT -> PASTE_DELAYS
      [] OTHER ->
            IF Len(step.value) >= 1
            THEN IF step.value[1] \in DelayCharacters
                 THEN DELAY_CHARACTERS(step.value[1])
                 ELSE Delays(Undefined, Some(60))
            ELSE Delays(Undefined, Undefined)

lookupDelays(step) ==
    CASE step.kind = INSERT_NEWLINE -> DELAY_CHARACTERS(NL)
      [] step.kind = INSERT_PASTED_TEXT -> PASTE_DELAYS
      [] OTHER ->
            IF Len(step.value) = 1
            THEN IF step.value[1] \in DelayCharacters
                 THEN DELAY_CHARACTERS(step.value[1])
                 ELSE Delays(Undefined, Some(60))
            ELSE Delays(Undefined, Undefined)

(***************************************************************************)
(* Scripts.  A script object has an identity (id): the effect's dependency *)
(* array compares props.script by identity, not by content.                *)
(***************************************************************************)
DemoScript(id, initialReplContent, stepSeq) ==
    [id |-> id, steps |-> stepSeq, initialReplContent |-> initialReplContent,
     initialBrowserContent |-> <<"o">>]

\* The steps scripts are built from: every kind, every target, with and without
\* explicit coordinates, every shape of the delay policy.
StepPool ==
    { SleepStep(200),
      DeltaStep(INSERT_TEXT, EDITOR, <<"a">>, Some(2), Some(3)),
      DeltaStep(INSERT_TEXT, EDITOR, <<"b">>, Undefined, Undefined),
      DeltaStep(INSERT_TEXT, EDITOR, <<"(">>, Some(4), Undefined),
      DeltaStep(INSERT_TEXT, EDITOR, <<SP, SP>>, Undefined, Undefined),
      DeltaStep(INSERT_NEWLINE, EDITOR, <<NL>>, Undefined, Undefined),
      DeltaStep(INSERT_PASTED_TEXT, EDITOR, <<"c", "d">>, Undefined, Some(5)),
      DeltaStep(INSERT_TEXT, REPL, <<"x">>, Some(1), Some(1)),
      DeltaStep(INSERT_TEXT, REPL, <<NL, "y">>, Undefined, Undefined),
      DeltaStep(SET_BROWSER_CONTENT, BROWSER, <<"h">>, Undefined, Undefined) }

StepSeqs == UNION { [1..n -> StepPool] : n \in 0..MaxSteps }

Scripts == { DemoScript(1, rc, ss) : rc \in {<< >>, <<"%">>}, ss \in StepSeqs }

\* The scripts of the component-level specification: a short version of the
\* playground's script (src/playground/src/App.tsx), a browser-only script and
\* the empty script.
SampleSteps ==
    { << DeltaStep(INSERT_PASTED_TEXT, EDITOR, <<"c", "d">>, Some(1), Some(1)),
         DeltaStep(INSERT_TEXT, REPL, <<"x">>, Some(1), Some(1)) >>,
      << SleepStep(200),
         DeltaStep(SET_BROWSER_CONTENT, BROWSER, <<"h">>, Undefined, Undefined) >>,
      << >> }

(***************************************************************************)
(* The calls a run makes, in order: its sink calls and its sleep() calls.  *)
(* step is the index of the step that made the call (0: before the loop).  *)
(***************************************************************************)
Call(sink, step, tgt, txt, line, col, endCol, ms, old) ==
    [sink |-> sink, step |-> step, target |-> tgt, text |-> txt, line |-> line,
     col |-> col, endCol |-> endCol, ms |-> ms, old |-> old]

SleepCall(k, ms) == Call("sleep", k, NoTarget, << >>, 0, 0, 0, ms, {})
SetTargetCall(k, tgt) == Call("setTarget", k, tgt, << >>, 0, 0, 0, 0, {})
SetBrowserContentCall(k, v) == Call("setBrowserContent", k, NoTarget, v, 0, 0, 0, 0, {})
SetReplContentCall(k, v) == Call("setReplContent", k, NoTarget, v, 0, 0, 0, 0, {})
ExecuteEditsCall(k, line, col, v) == Call("executeEdits", k, NoTarget, v, line, col, col, 0, {})
AdditionCall(k, line, col, endCol) == Call("addition", k, NoTarget, << >>, line, col, endCol, 0, {})
FakeCursorCall(k, old, line, col, endCol) == Call("fake-cursor", k, NoTarget, << >>, line, col, endCol, 0, old)

\* A decoration the editor holds.  deltaDecorations returns fresh ids; the id of
\* the decoration created by step k of run r for class cls is <<r, k, cls>>.
Decoration(r, k, cls, line, col, endCol) ==
    [id |-> <<r, k, cls>>, cls |-> cls, line |-> line, col |-> col, endCol |-> endCol]

(***************************************************************************)
(* One invocation of the async function of runScript.                      *)
(***************************************************************************)
NewRun(s) ==
    [script |-> s, pc |-> "settle", i |-> 0, lineNumber |-> 0, columnIndex |-> 0,
     newRepl |-> << >>, currentTarget |-> NoTarget, decorations |-> {},
     calls |-> <<SleepCall(0, 300)>>]

\* The locals kept at module level: a later run finds what an earlier one left.
LocalsAtModuleLevel(run) ==
    IF previous = << >>
    THEN [run EXCEPT !.lineNumber = 1, !.columnIndex = 1,
                     !.newRepl = run.script.initialReplContent,
                     !.currentTarget = NoTarget, !.decorations = {}]
    ELSE [run EXCEPT !.lineNumber = previous[1].run.lineNumber,
                     !.columnIndex = previous[1].run.columnIndex,
                     !.newRepl = previous[1].run.newRepl,
                     !.currentTarget = previous[1].run.currentTarget,
                     !.decorations = {}]

\* Lines 336-344: the locals, declared once the settle delay is over.
Locals(run) ==
    [run EXCEPT !.lineNumber = 1, !.columnIndex = 1,
                !.newRepl = run.script.initialReplContent,
                !.currentTarget = NoTarget, !.decorations = {}]

\* changeTarget without its await sleep(100).
changeTargetNoPause(run, k) ==
    LET step == run.script.steps[k]
    IN  IF run.currentTarget # step.target
        THEN [run EXCEPT !.currentTarget = step.target,
                         !.calls = Append(@, SetTargetCall(k, step.target))]
        ELSE run

\* changeTarget(step), up to its await (or its return when there is no switch).
changeTarget(run, k) ==
    LET step == run.script.steps[k]
    IN  IF run.currentTarget # step.target
        THEN [run EXCEPT !.currentTarget = step.target,
                         !.calls = @ \o <<SetTargetCall(k, step.target), SleepCall(k, 100)>>]
        ELSE run

\* The head of the for-of loop for step k, up to the first await of the step.
BeginStep(run, k) ==
    IF k > Len(run.script.steps)
    THEN [run EXCEPT !.i = k, !.pc = "done"]
    ELSE LET step == run.script.steps[k]
         IN  IF step.kind = SLEEP
             THEN [run EXCEPT !.i = k, !.pc = "sleep",
                              !.calls = Append(@, SleepCall(k, step.duration))]
             ELSE [changeTarget(run, k) EXCEPT !.i = k, !.pc = "changeTarget"]

\* The value of the target state after BeginStep(run, k): setTarget(step.target)
\* is called by changeTarget when it switches.
TargetAfterBegin(run, k, cur) ==
    IF /\ k <= Len(run.script.steps)
       /\ run.script.steps[k].kind # SLEEP
       /\ run.currentTarget # run.script.steps[k].target
    THEN run.script.steps[k].target
    ELSE cur

\* The editor branch with columnIndex += 1 in place of += step.value.length.
EditorStepColumnByOne(r, run) ==
    LET k == run.i
        step == run.script.steps[k]
        line == Coalesce(step.startLineNumber, run.lineNumber)
        col == Coalesce(step.startColumnIndex, run.columnIndex)
        endCol == col + Len(step.value)
        marks == IF ~IsBlank(step.value) THEN <<AdditionCall(k, line, col, endCol)>> ELSE << >>
    IN  [run EXCEPT
           !.calls = @ \o <<ExecuteEditsCall(k, line, col, step.value)>> \o marks
                       \o <<FakeCursorCall(k, run.decorations, line, col, endCol)>>,
           !.decorations = {<<r, k, "fake-cursor">>},
           !.lineNumber = IF step.kind = INSERT_NEWLINE THEN line + 1 ELSE line,
           !.columnIndex = IF step.kind = INSERT_NEWLINE THEN 1 ELSE col + 1]

\* Lines 374-403: the editor branch of a step.
EditorStep(r, run) ==
    LET k == run.i
        step == run.script.steps[k]
        line == Coalesce(step.startLineNumber, run.lineNumber)
        col == Coalesce(step.startColumnIndex, run.columnIndex)
        endCol == col + Len(step.value)
        marks == IF ~IsBlank(step.value) THEN <<AdditionCall(k, line, col, endCol)>> ELSE << >>
    IN  [run EXCEPT
           !.calls = @ \o <<ExecuteEditsCall(k, line, col, step.value)>> \o marks
                       \o <<FakeCursorCall(k, run.decorations, line, col, endCol)>>,
           !.decorations = {<<r, k, "fake-cursor">>},
           !.lineNumber = IF step.kind = INSERT_NEWLINE THEN line + 1 ELSE line,
           !.columnIndex = IF step.kind = INSERT_NEWLINE THEN 1 ELSE col + Len(step.value)]

\* The decorations of the editor after EditorStep(r, run).
DecorationsAfterEditorStep(r, run, decos) ==
    LET k == run.i
        step == run.script.steps[k]
        line == Coalesce(step.startLineNumber, run.lineNumber)
        col == Coalesce(step.startColumnIndex, run.columnIndex)
        endCol == col + Len(step.value)
        added == IF ~IsBlank(step.value)
                 THEN {Decoration(r, k, "addition", line, col, endCol)} ELSE {}
    IN  ({d \in decos : d.id \notin run.decorations} \cup added)
            \cup {Decoration(r, k, "fake-cursor", line, col, endCol)}

\* The repl branch publishing the step's value in place of the buffer.
ReplStepNoAccumulate(run) ==
    LET step == run.script.steps[run.i]
    IN  [run EXCEPT !.newRepl = step.value,
                    !.calls = Append(@, SetReplContentCall(run.i, step.value))]

\* The repl branch moving the editor cursor to the step's coordinates.
ReplStepMovingCursor(run) ==
    LET step == run.script.steps[run.i]
        appended == run.newRepl \o step.value
    IN  [run EXCEPT !.newRepl = appended,
                    !.lineNumber = Coalesce(step.startLineNumber, run.lineNumber),
                    !.columnIndex = Coalesce(step.startColumnIndex, run.columnIndex)
                                        + Len(step.value),
                    !.calls = Append(@, SetReplContentCall(run.i, appended))]

\* Lines 404-407: the other branch of a step.
ReplStep(run) ==
    LET step == run.script.steps[run.i]
        appended == run.newRepl \o step.value
    IN  [run EXCEPT !.newRepl = appended,
                    !.calls = Append(@, SetReplContentCall(run.i, appended))]

\* Lines 374-407.
Mutate(r, run) ==
    IF run.script.steps[run.i].target = EDITOR THEN EditorStep(r, run) ELSE ReplStep(run)

\* The end of a step that skips the step after it.
EndStepSkip(run) ==
    LET delays == lookupDelays(run.script.steps[run.i])
    IN  IF IsDefined(delays.endDelay)
        THEN [run EXCEPT !.pc = "endDelay",
                         !.calls = Append(@, SleepCall(run.i, delays.endDelay[1]))]
        ELSE BeginStep(run, run.i + 2)

\* The end of a step without its endDelay.
EndStepNoDelay(run) == BeginStep(run, run.i + 1)

\* Lines 409-412 and the start of the next iteration.
EndStep(run) ==
    LET delays == lookupDelays(run.script.steps[run.i])
    IN  IF IsDefined(delays.endDelay)
        THEN [run EXCEPT !.pc = "endDelay",
                         !.calls = Append(@, SleepCall(run.i, delays.endDelay[1]))]
        ELSE BeginStep(run, run.i + 1)

TargetAfterEnd(run, cur) ==
    IF IsDefined(lookupDelays(run.script.steps[run.i]).endDelay)
    THEN cur
    ELSE TargetAfterBegin(run, run.i + 1, cur)

\* Lines 374-412 as one piece: what a step does once its startDelay is over.
ApplyStep(r) ==
    LET run == runs[r]
        mutated == Mutate(r, run)
    IN  /\ runs' = [runs EXCEPT ![r] = EndStep(mutated)]
        /\ target' = TargetAfterEnd(mutated, target)
        /\ IF run.script.steps[run.i].target = EDITOR
           THEN /\ editorDecorations' = DecorationsAfterEditorStep(r, run, editorDecorations)
                /\ UNCHANGED replContent
           ELSE /\ replContent' = mutated.newRepl
                /\ UNCHANGED editorDecorations
        /\ UNCHANGED browserContent

hostVars == <<monaco, isEditorReady, inView, script, lastDeps, nextId, mounted, previous>>

(***************************************************************************)
(* The resumptions of a run, one per await.                                *)
(***************************************************************************)
\* await sleep(300) is over (line 334).
AfterSettle(r) ==
    /\ runs[r].pc = "settle"
    /\ runs' = [runs EXCEPT ![r] = BeginStep(Locals(runs[r]), 1)]
    /\ target' = TargetAfterBegin(Locals(runs[r]), 1, target)
    /\ UNCHANGED <<hostVars, replContent, browserContent, editorDecorations, tokVars, polVars>>

\* await sleep(step.duration) is over (line 356).
AfterSleep(r) ==
    /\ runs[r].pc = "sleep"
    /\ runs' = [runs EXCEPT ![r] = BeginStep(runs[r], runs[r].i + 1)]
    /\ target' = TargetAfterBegin(runs[r], runs[r].i + 1, target)
    /\ UNCHANGED <<hostVars, replContent, browserContent, editorDecorations, tokVars, polVars>>

\* The SET_BROWSER_CONTENT branch without its setBrowserContent('').
AfterChangeTargetBrowserNoClear(r) ==
    LET run == runs[r]
    IN  /\ run.pc = "changeTarget"
        /\ run.script.steps[run.i].kind = SET_BROWSER_CONTENT
        /\ runs' = [runs EXCEPT ![r] =
                      [run EXCEPT !.pc = "browserClear",
                                  !.calls = Append(@, SleepCall(run.i, 500))]]
        /\ UNCHANGED <<hostVars, target, browserContent, replContent, editorDecorations, tokVars, polVars>>

\* await changeTarget(step) is over, in the SET_BROWSER_CONTENT branch (line 359).
AfterChangeTargetBrowser(r) ==
    LET run == runs[r]
    IN  /\ run.pc = "changeTarget"
        /\ run.script.steps[run.i].kind = SET_BROWSER_CONTENT
        /\ browserContent' = << >>
        /\ runs' = [runs EXCEPT ![r] =
                      [run EXCEPT !.pc = "browserClear",
                                  !.calls = @ \o <<SetBrowserContentCall(run.i, << >>),
                                                   SleepCall(run.i, 500)>>]]
        /\ UNCHANGED <<hostVars, target, replContent, editorDecorations, tokVars, polVars>>

\* await sleep(500) is over (line 361).
AfterBrowserClear(r) ==
    LET run == runs[r]
    IN  /\ run.pc = "browserClear"
        /\ browserContent' = run.script.steps[run.i].value
        /\ runs' = [runs EXCEPT ![r] =
                      [run EXCEPT !.pc = "browserSet",
                                  !.calls = @ \o <<SetBrowserContentCall(run.i, run.script.steps[run.i].value),
                                                   SleepCall(run.i, 200)>>]]
        /\ UNCHANGED <<hostVars, target, replContent, editorDecorations, tokVars, polVars>>

\* await sleep(200) is over (line 363): continue.
AfterBrowserSet(r) ==
    /\ runs[r].pc = "browserSet"
    /\ runs' = [runs EXCEPT ![r] = BeginStep(runs[r], runs[r].i + 1)]
    /\ target' = TargetAfterBegin(runs[r], runs[r].i + 1, target)
    /\ UNCHANGED <<hostVars, replContent, browserContent, editorDecorations, tokVars, polVars>>

\* await changeTarget(step) is over, in the last branch (line 367), and the
\* step has a startDelay: sleep(delays.startDelay).
AfterChangeTargetDelayed(r) ==
    LET run == runs[r]
        step == run.script.steps[run.i]
    IN  /\ run.pc = "changeTarget"
        /\ step.kind # SET_BROWSER_CONTENT
        /\ IsDefined(lookupDelays(step).startDelay)
        /\ runs' = [runs EXCEPT ![r] =
                      [run EXCEPT !.pc = "startDelay",
                                  !.calls = Append(@, SleepCall(run.i, lookupDelays(step).startDelay[1]))]]
        /\ UNCHANGED <<hostVars, target, replContent, browserContent, editorDecorations, tokVars, polVars>>

\* await changeTarget(step) is over (line 367) and the step has no startDelay.
AfterChangeTarget(r) ==
    LET run == runs[r]
        step == run.script.steps[run.i]
    IN  /\ run.pc = "changeTarget"
        /\ step.kind # SET_BROWSER_CONTENT
        /\ ~IsDefined(lookupDelays(step).startDelay)
        /\ ApplyStep(r)
        /\ UNCHANGED <<hostVars, tokVars, polVars>>

\* await sleep(delays.startDelay) is over (line 371).
AfterStartDelay(r) ==
    /\ runs[r].pc = "startDelay"
    /\ ApplyStep(r)
    /\ UNCHANGED <<hostVars, tokVars, polVars>>

\* await sleep(delays.endDelay) is over (line 410).
AfterEndDelay(r) ==
    /\ runs[r].pc = "endDelay"
    /\ runs' = [runs EXCEPT ![r] = BeginStep(runs[r], runs[r].i + 1)]
    /\ target' = TargetAfterBegin(runs[r], runs[r].i + 1, target)
    /\ UNCHANGED <<hostVars, replContent, browserContent, editorDecorations, tokVars, polVars>>

(***************************************************************************)
(* The host: the three events of the gate, re-renders, and the effect.     *)
(***************************************************************************)
\* useMonaco() returns the instance: it is null until the loader resolves.
MonacoLoaded ==
    /\ mounted
    /\ ~monaco
    /\ monaco' = TRUE
    /\ UNCHANGED <<isEditorReady, inView, script, lastDeps, nextId, target,
                   replContent, browserContent, editorDecorations, runs, mounted, previous,
                   tokVars, polVars>>

\* handleEditorMounted: editorRef.current = editor; setEditorReady(true).
handleEditorMounted ==
    /\ mounted
    /\ ~isEditorReady
    /\ isEditorReady' = TRUE
    /\ UNCHANGED <<monaco, inView, script, lastDeps, nextId, target,
                   replContent, browserContent, editorDecorations, runs, mounted, previous,
                   tokVars, polVars>>

\* useInView({threshold: 1, triggerOnce: true}): inView turns true and stays.
BecomeVisible ==
    /\ mounted
    /\ ~inView
    /\ inView' = TRUE
    /\ UNCHANGED <<monaco, isEditorReady, script, lastDeps, nextId, target,
                   replContent, browserContent, editorDecorations, runs, mounted, previous,
                   tokVars, polVars>>

\* The parent renders the component again with another script object.
Rerender ==
    /\ mounted
    /\ nextId <= MaxRuns
    /\ \E ss \in SampleSteps : script' = DemoScript(nextId, << >>, ss)
    /\ nextId' = nextId + 1
    /\ UNCHANGED <<monaco, isEditorReady, inView, lastDeps, target,
                   replContent, browserContent, editorDecorations, runs, mounted, previous,
                   tokVars, polVars>>

Deps == <<monaco, isEditorReady, inView, script.id>>

\* The effect with a condition that forgets isEditorReady.
EffectWithoutEditorReady ==
    /\ mounted
    /\ lastDeps # <<Deps>>
    /\ lastDeps' = <<Deps>>
    /\ runs' = IF monaco /\ inView
               THEN Append(runs, NewRun(script))
               ELSE runs
    /\ UNCHANGED <<monaco, isEditorReady, inView, script, nextId, target,
                   replContent, browserContent, editorDecorations, mounted, previous,
                   tokVars, polVars>>

\* The function passed to useEffect: React calls it after the first render and
\* after every render whose dependency array differs from the last one, while
\* the component is mounted.
Effect ==
    /\ mounted
    /\ lastDeps # <<Deps>>
    /\ lastDeps' = <<Deps>>
    /\ runs' = IF monaco /\ isEditorReady /\ inView
               THEN Append(runs, NewRun(script))
               ELSE runs
    /\ UNCHANGED <<monaco, isEditorReady, inView, script, nextId, target,
                   replContent, browserContent, editorDecorations, mounted, previous,
                   tokVars, polVars>>

TokIdle ==
    /\ text = << >>
    /\ startLineNumber = Undefined
    /\ startColumnIndex = Undefined
    /\ tokTarget = EDITOR
    /\ currentIndex = 0
    /\ steps = << >>
    /\ tokState = "idle"

PolIdle ==
    /\ delayStep = SleepStep(0)
    /\ delaysResult = << >>

\* The component after its first render with props.script = s.
Mounted(s) ==
    /\ monaco = FALSE
    /\ isEditorReady = FALSE
    /\ inView = FALSE
    /\ script = s
    /\ lastDeps = << >>
    /\ nextId = 2
    /\ target = NoTarget
    /\ replContent = s.initialReplContent
    /\ browserContent = s.initialBrowserContent
    /\ editorDecorations = {}
    /\ runs = << >>
    /\ mounted = TRUE
    /\ previous = << >>

\* The host removes the component.  The effect returns no cleanup and sleep()
\* keeps no handle on its timer (lines 305-307, 331-420), so nothing is
\* cancelled: the runs stay suspended on their timers.  From here on target,
\* replContent and browserContent are the values last handed to the setters
\* of the removed component.
Unmount ==
    /\ mounted
    /\ mounted' = FALSE
    /\ UNCHANGED <<monaco, isEditorReady, inView, script, lastDeps, nextId, target,
                   replContent, browserContent, editorDecorations, runs, previous,
                   tokVars, polVars>>

\* What an instance leaves behind once its playback is over.
Outcome ==
    [run |-> runs[1], target |-> target, replContent |-> replContent,
     browserContent |-> browserContent, editorDecorations |-> editorDecorations]

\* Once its playback is over the host removes the component and mounts a fresh
\* instance with the same script object: every useState and useRef starts
\* again from its initial value (lines 314-324), with a new editor; the monaco
\* instance stays loaded.
Remount ==
    /\ mounted
    /\ previous = << >>
    /\ Len(runs) = 1
    /\ runs[1].pc = "done"
    /\ previous' = <<Outcome>>
    /\ isEditorReady' = FALSE
    /\ inView' = FALSE
    /\ lastDeps' = << >>
    /\ target' = NoTarget
    /\ replContent' = script.initialReplContent
    /\ browserContent' = script.initialBrowserContent
    /\ editorDecorations' = {}
    /\ runs' = << >>
    /\ UNCHANGED <<monaco, script, nextId, mounted, tokVars, polVars>>

\* One mounted component whose script is any script of the bounds.
InitRun == TokIdle /\ PolIdle /\ \E s \in Scripts : Mounted(s)
NextRun ==
    \/ MonacoLoaded
    \/ handleEditorMounted
    \/ BecomeVisible
    \/ Effect
    \/ \E r \in DOMAIN runs : AfterSettle(r)
    \/ \E r \in DOMAIN runs : AfterSleep(r)
    \/ \E r \in DOMAIN runs : AfterChangeTargetBrowser(r)
    \/ \E r \in DOMAIN runs : AfterBrowserClear(r)
    \/ \E r \in DOMAIN runs : AfterBrowserSet(r)
    \/ \E r \in DOMAIN runs : AfterChangeTargetDelayed(r)
    \/ \E r \in DOMAIN runs : AfterChangeTarget(r)
    \/ \E r \in DOMAIN runs : AfterStartDelay(r)
    \/ \E r \in DOMAIN runs : AfterEndDelay(r)
SpecRun == InitRun /\ [][NextRun]_vars

\* The same, with every timer of a run firing in the end.
RunStep ==
    \E r \in DOMAIN runs :
        \/ AfterSettle(r) \/ AfterSleep(r) \/ AfterChangeTargetBrowser(r)
        \/ AfterBrowserClear(r) \/ AfterBrowserSet(r) \/ AfterChangeTargetDelayed(r)
        \/ AfterChangeTarget(r) \/ AfterStartDelay(r) \/ AfterEndDelay(r)
SpecRunFair == SpecRun /\ WF_vars(RunStep)

\* One component that plays its script, is removed, and is mounted afresh with
\* the same script.
NextReplay ==
    \/ MonacoLoaded
    \/ handleEditorMounted
    \/ BecomeVisible
    \/ Effect
    \/ Remount
    \/ \E r \in DOMAIN runs : AfterSettle(r)
    \/ \E r \in DOMAIN runs : AfterSleep(r)
    \/ \E r \in DOMAIN runs : AfterChangeTargetBrowser(r)
    \/ \E r \in DOMAIN runs : AfterBrowserClear(r)
    \/ \E r \in DOMAIN runs : AfterBrowserSet(r)
    \/ \E r \in DOMAIN runs : AfterChangeTargetDelayed(r)
    \/ \E r \in DOMAIN runs : AfterChangeTarget(r)
    \/ \E r \in DOMAIN runs : AfterStartDelay(r)
    \/ \E r \in DOMAIN runs : AfterEndDelay(r)
SpecReplay == InitRun /\ [][NextReplay]_vars

\* One mounted component that its parent renders again with other scripts.
Init == TokIdle /\ PolIdle /\ \E ss \in SampleSteps : Mounted(DemoScript(1, << >>, ss))
Next ==
    \/ MonacoLoaded
    \/ handleEditorMounted
    \/ BecomeVisible
    \/ Rerender
    \/ Effect
    \/ Unmount
    \/ \E r \in DOMAIN runs : AfterSettle(r)
    \/ \E r \in DOMAIN runs : AfterSleep(r)
    \/ \E r \in DOMAIN runs : AfterChangeTargetBrowser(r)
    \/ \E r \in DOMAIN runs : AfterBrowserClear(r)
    \/ \E r \in DOMAIN runs : AfterBrowserSet(r)
    \/ \E r \in DOMAIN runs : AfterChangeTargetDelayed(r)
    \/ \E r \in DOMAIN runs : AfterChangeTarget(r)
    \/ \E r \in DOMAIN runs : AfterStartDelay(r)
    \/ \E r \in DOMAIN runs : AfterEndDelay(r)
Spec == Init /\ [][Next]_vars

(***************************************************************************)
(* stepsForText, with the default paste delimiters.  One action per        *)
(* iteration of its while loop; consumeWhitespace and consumePaste, the    *)
(* inner loops, are operators on the text and the scan position.           *)
(***************************************************************************)
Alphabet == {"a", SP, NL, leftPasteDel, rightPasteDel}

Texts == UNION { [1..n -> Alphabet] : n \in 0..MaxLen }

\* peek(), with the scan position idx: << >> stands for undefined.
peek(t, idx) == IF idx >= Len(t) THEN Undefined ELSE <<t[idx + 1]>>

\* consumeWhitespace that forgets to add the consumed characters.
RECURSIVE consumeWhitespaceDropping(_, _)
consumeWhitespaceDropping(t, idx) ==
    IF peek(t, idx) = <<SP>>
    THEN consumeWhitespaceDropping(t, idx + 1)
    ELSE [consumed |-> << >>, index |-> idx]

\* consumeWhitespace(): what it returns and where it leaves the scan position.
RECURSIVE consumeWhitespace(_, _)
consumeWhitespace(t, idx) ==
    IF peek(t, idx) = <<SP>>
    THEN LET rest == consumeWhitespace(t, idx + 1)
         IN  [consumed |-> <<t[idx + 1]>> \o rest.consumed, index |-> rest.index]
    ELSE [consumed |-> << >>, index |-> idx]

\* consumePaste that keeps the right delimiter in what it returns.
RECURSIVE consumePasteKeepingRight(_, _)
consumePasteKeepingRight(t, idx) ==
    LET peeked == peek(t, idx)
    IN  IF peeked = Undefined
        THEN [error |-> "Unterminated paste", consumed |-> << >>, index |-> idx]
        ELSE IF peeked = <<NL>>
        THEN [error |-> "Newline not allowed in paste", consumed |-> << >>, index |-> idx]
        ELSE IF peeked = <<rightPasteDel>>
        THEN [error |-> "", consumed |-> <<rightPasteDel>>, index |-> idx + 1]
        ELSE LET rest == consumePasteKeepingRight(t, idx + 1)
             IN  [error |-> rest.error, consumed |-> <<t[idx + 1]>> \o rest.consumed,
                  index |-> rest.index]

\* consumePaste that returns what it has at the end of the input.
RECURSIVE consumePasteLenient(_, _)
consumePasteLenient(t, idx) ==
    LET peeked == peek(t, idx)
    IN  IF peeked = Undefined
        THEN [error |-> "", consumed |-> << >>, index |-> idx]
        ELSE IF peeked = <<NL>>
        THEN [error |-> "Newline not allowed in paste", consumed |-> << >>, index |-> idx]
        ELSE IF peeked = <<rightPasteDel>>
        THEN [error |-> "", consumed |-> << >>, index |-> idx + 1]
        ELSE LET rest == consumePasteLenient(t, idx + 1)
             IN  [error |-> rest.error, consumed |-> <<t[idx + 1]>> \o rest.consumed,
                  index |-> rest.index]

\* consumePaste without its newline test.
RECURSIVE consumePasteAllowingNewline(_, _)
consumePasteAllowingNewline(t, idx) ==
    LET peeked == peek(t, idx)
    IN  IF peeked = Undefined
        THEN [error |-> "Unterminated paste", consumed |-> << >>, index |-> idx]
        ELSE IF peeked = <<rightPasteDel>>
        THEN [error |-> "", consumed |-> << >>, index |-> idx + 1]
        ELSE LET rest == consumePasteAllowingNewline(t, idx + 1)
             IN  [error |-> rest.error, consumed |-> <<t[idx + 1]>> \o rest.consumed,
                  index |-> rest.index]

\* consumePaste(): what it returns, or the Error it throws, and where it leaves
\* the scan position.
RECURSIVE consumePaste(_, _)
consumePaste(t, idx) ==
    LET peeked == peek(t, idx)
    IN  IF peeked = Undefined
        THEN [error |-> "Unterminated paste", consumed |-> << >>, index |-> idx]
        ELSE IF peeked = <<NL>>
        THEN [error |-> "Newline not allowed in paste", consumed |-> << >>, index |-> idx]
        ELSE IF peeked = <<rightPasteDel>>
        THEN [error |-> "", consumed |-> << >>, index |-> idx + 1]
        ELSE LET rest == consumePaste(t, idx + 1)
             IN  [error |-> rest.error, consumed |-> <<t[idx + 1]>> \o rest.consumed,
                  index |-> rest.index]

\* addStep(kind, value): the step pushed.
addStep(kind, value) == DeltaStep(kind, tokTarget, value, Undefined, Undefined)

\* The return that positions every step, not only the first.
TokReturnPositioningAll ==
    /\ tokState = "scan"
    /\ currentIndex >= Len(text)
    /\ steps' = [n \in DOMAIN steps |->
                    [steps[n] EXCEPT !.startLineNumber = startLineNumber,
                                     !.startColumnIndex = startColumnIndex]]
    /\ tokState' = "returned"
    /\ UNCHANGED <<text, startLineNumber, startColumnIndex, tokTarget, currentIndex, compVars, polVars>>

\* Lines 194-197 and 218-223: the input is consumed; position the first step
\* and return.
TokReturn ==
    /\ tokState = "scan"
    /\ currentIndex >= Len(text)
    /\ steps' = IF Len(steps) > 0
                THEN [steps EXCEPT ![1].startLineNumber = startLineNumber,
                                   ![1].startColumnIndex = startColumnIndex]
                ELSE steps
    /\ tokState' = "returned"
    /\ UNCHANGED <<text, startLineNumber, startColumnIndex, tokTarget, currentIndex, compVars, polVars>>

\* Lines 199-202.
TokNewline ==
    /\ tokState = "scan"
    /\ peek(text, currentIndex) = <<NL>>
    /\ steps' = Append(steps, addStep(INSERT_NEWLINE, <<NL>>))
    /\ currentIndex' = currentIndex + 1
    /\ UNCHANGED <<text, startLineNumber, startColumnIndex, tokTarget, tokState, compVars, polVars>>

\* The space branch without consumeWhitespace: one step per space.
TokWhitespaceNoAbsorb ==
    /\ tokState = "scan"
    /\ peek(text, currentIndex) = <<SP>>
    /\ steps' = Append(steps, addStep(INSERT_TEXT, <<SP>>))
    /\ currentIndex' = currentIndex + 1
    /\ UNCHANGED <<text, startLineNumber, startColumnIndex, tokTarget, tokState, compVars, polVars>>

\* Lines 204-208.
TokWhitespace ==
    /\ tokState = "scan"
    /\ peek(text, currentIndex) = <<SP>>
    /\ LET remainder == consumeWhitespace(text, currentIndex + 1)
       IN  /\ steps' = Append(steps, addStep(INSERT_TEXT, <<SP>> \o remainder.consumed))
           /\ currentIndex' = remainder.index
    /\ UNCHANGED <<text, startLineNumber, startColumnIndex, tokTarget, tokState, compVars, polVars>>

\* Lines 210-213.
TokPaste ==
    /\ tokState = "scan"
    /\ peek(text, currentIndex) = <<leftPasteDel>>
    /\ LET paste == consumePaste(text, currentIndex + 1)
       IN  IF paste.error # ""
           THEN /\ tokState' = paste.error
                /\ currentIndex' = paste.index
                /\ UNCHANGED steps
           ELSE /\ steps' = Append(steps, addStep(INSERT_PASTED_TEXT, paste.consumed))
                /\ currentIndex' = paste.index
                /\ UNCHANGED tokState
    /\ UNCHANGED <<text, startLineNumber, startColumnIndex, tokTarget, compVars, polVars>>

\* Line 215.
TokChar ==
    /\ tokState = "scan"
    /\ peek(text, currentIndex) # Undefined
    /\ peek(text, currentIndex)[1] \notin {NL, SP, leftPasteDel}
    /\ steps' = Append(steps, addStep(INSERT_TEXT, peek(text, currentIndex)))
    /\ currentIndex' = currentIndex + 1
    /\ UNCHANGED <<text, startLineNumber, startColumnIndex, tokTarget, tokState, compVars, polVars>>

\* A call stepsForText(text, target, startLineNumber, startColumnIndex).
InitTok ==
    /\ text \in Texts
    /\ tokTarget \in {EDITOR, REPL}
    /\ \E pos \in {<<Undefined, Undefined>>, <<Some(3), Some(5)>>, <<Some(3), Undefined>>} :
          /\ startLineNumber = pos[1]
          /\ startColumnIndex = pos[2]
    /\ currentIndex = 0
    /\ steps = << >>
    /\ tokState = "scan"
    /\ Mounted(DemoScript(1, << >>, << >>))
    /\ PolIdle
NextTok == TokReturn \/ TokNewline \/ TokWhitespace \/ TokPaste \/ TokChar
SpecTok == InitTok /\ [][NextTok]_vars

(***************************************************************************)
(* lookupDelays as it is called at line 369, on any step of a kind that    *)
(* reaches it.                                                             *)
(***************************************************************************)
DelayAlphabet == {"a", SP, NL, "(", ")"}

DelayValues == UNION { [1..n -> DelayAlphabet] : n \in 0..MaxValueLen }

DelaySteps ==
    { DeltaStep(kind, tgt, value, Undefined, Undefined) :
        kind \in {INSERT_TEXT, INSERT_NEWLINE, INSERT_PASTED_TEXT},
        tgt \in {EDITOR, REPL},
        value \in DelayValues }

\* const delays = lookupDelays(step)
LookupDelays ==
    /\ delaysResult = << >>
    /\ delayStep.kind # SLEEP
    /\ delaysResult' = <<lookupDelays(delayStep)>>
    /\ UNCHANGED <<delayStep, compVars, tokVars>>

InitDelays ==
    /\ delayStep \in DelaySteps
    /\ delaysResult = << >>
    /\ TokIdle
    /\ Mounted(DemoScript(1, << >>, << >>))
NextDelays == LookupDelays
SpecDelays == InitDelays /\ [][NextDelays]_vars

(***************************************************************************)
(* Vocabulary of the properties.                                           *)
(***************************************************************************)
RECURSIVE Concat(_)
\* The concatenation of a sequence of strings.
Concat(ss) == IF ss = << >> THEN << >> ELSE Head(ss) \o Concat(Tail(ss))

\* The calls of a run made by step k, in order.
CallsOf(run, k) ==
    LET OfStep(c) == c.step = k IN SelectSeq(run.calls, OfStep)

IsMutation(c) == c.sink \in {"executeEdits", "setReplContent", "setBrowserContent"}

\* The pane mutations of a run made by step k, in order.
MutationsOf(run, k) == SelectSeq(CallsOf(run, k), IsMutation)

\* The sinks named by a sequence of calls.
Sinks(cs) == [n \in DOMAIN cs |-> cs[n].sink]

\* The loop of the run has left step k behind.
Completed(run, k) == k < run.i

\* Step k of the run has mutated its pane (for the browser: both times).
Mutated(run, k) ==
    LET step == run.script.steps[k]
    IN  Len(MutationsOf(run, k)) = IF step.kind = SET_BROWSER_CONTENT THEN 2 ELSE 1

\* The target of the last delta step before step k (the pane a run has active
\* when it reaches step k), undefined when there is none.
RECURSIVE TargetBefore(_, _)
TargetBefore(stepSeq, k) ==
    IF k <= 1 THEN NoTarget
    ELSE IF stepSeq[k - 1].kind # SLEEP THEN stepSeq[k - 1].target
    ELSE TargetBefore(stepSeq, k - 1)

\* s is a prefix of t.
IsPrefix(s, t) == Len(s) <= Len(t) /\ SubSeq(t, 1, Len(s)) = s

\* C1: within one run the steps are applied strictly in script order: the calls
\* of step i all come before the calls of step j for i < j, no call belongs
\* to a step the loop has not reached, and every step the loop has left
\* behind was applied exactly once (one sleep for a SLEEP step, one edit of
\* the step's value for an EDITOR step, one publication for a REPL step, the
\* two browser sets for a SET_BROWSER_CONTENT step).
C1_StepsInScriptOrder ==
    \A r \in DOMAIN runs :
        LET run == runs[r]
            n == Len(run.script.steps)
        IN  /\ run.i <= n + 1
            /\ \A a, b \in DOMAIN run.calls :
                  a < b => run.calls[a].step <= run.calls[b].step
            /\ \A a \in DOMAIN run.calls : run.calls[a].step <= run.i
            /\ \A k \in 1..n : Completed(run, k) =>
                  LET step == run.script.steps[k]
                      muts == MutationsOf(run, k)
                  IN  CASE step.kind = SLEEP ->
                             CallsOf(run, k) = <<SleepCall(k, step.duration)>>
                        [] step.kind = SET_BROWSER_CONTENT ->
                             Sinks(muts) = <<"setBrowserContent", "setBrowserContent">>
                        [] step.kind \notin {SLEEP, SET_BROWSER_CONTENT} /\ step.target = EDITOR ->
                             /\ Sinks(muts) = <<"executeEdits">>
                             /\ muts[1].text = step.value
                        [] OTHER ->
                             Sinks(muts) = <<"setReplContent">>

\* C1 witness: a run is over whose two first steps both edited the editor.
C1_Witness ==
    \E r \in DOMAIN runs :
        /\ runs[r].pc = "done"
        /\ Len(runs[r].script.steps) >= 2
        /\ runs[r].script.steps[1].target = EDITOR
        /\ runs[r].script.steps[2].target = EDITOR
        /\ Len(MutationsOf(runs[r], 1)) = 1
        /\ Len(MutationsOf(runs[r], 2)) = 1

GateOpen == monaco /\ isEditorReady /\ inView

\* C2: playback never starts early: unless monaco is initialized, the editor
\* has reported ready and the component is in view, no run has been started,
\* no active-pane signal was emitted and no pane was mutated.
C2_NoPlaybackBeforeGate ==
    ~GateOpen =>
        /\ runs = << >>
        /\ target = NoTarget
        /\ replContent = script.initialReplContent
        /\ browserContent = script.initialBrowserContent
        /\ editorDecorations = {}

\* C2 witness: the gate is open and a run has switched panes and mutated one.
C2_Witness ==
    /\ GateOpen
    /\ target # NoTarget
    /\ \E r \in DOMAIN runs : \E k \in 1..Len(runs[r].script.steps) :
          Len(MutationsOf(runs[r], k)) > 0

\* C3 (as claimed): runScript is started at most once on one mounted component.
C3_StartedAtMostOnce == Len(runs) <= 1

\* C4 (as claimed): at most one run is between its start and its last step.
C4_AtMostOneActiveRun ==
    Cardinality({r \in DOMAIN runs : runs[r].pc # "done"}) <= 1

\* C5: target switch precedes mutation.  A delta step whose target differs from
\* the target of the last delta step before it (undefined at first) starts
\* with setTarget(target) and a 100ms sleep, emits nothing else to the
\* active-pane signal, and leaves currentTarget (and the signal) at its target;
\* a delta step with the same target emits no signal and starts with its own
\* startDelay or its mutation; a SLEEP step only sleeps and leaves
\* currentTarget alone.
C5_TargetSwitchFirst ==
    \A r \in DOMAIN runs :
        LET run == runs[r]
            n == Len(run.script.steps)
            reached == IF run.i > n THEN n ELSE run.i
        IN  /\ run.pc # "settle" => run.currentTarget = TargetBefore(run.script.steps, reached + 1)
            /\ run.pc # "settle" => target = run.currentTarget
            /\ \A k \in 1..reached :
                  LET step == run.script.steps[k]
                      cs == CallsOf(run, k)
                      signals == {a \in DOMAIN cs : cs[a].sink = "setTarget"}
                  IN  CASE step.kind = SLEEP ->
                             signals = {} /\ IsPrefix(cs, <<SleepCall(k, step.duration)>>)
                        [] step.kind # SLEEP /\ step.target # TargetBefore(run.script.steps, k) ->
                             /\ signals = {1}
                             /\ IsPrefix(<<SetTargetCall(k, step.target), SleepCall(k, 100)>>, cs)
                        [] OTHER ->
                             /\ signals = {}
                             /\ cs # << >> =>
                                   \/ IsMutation(cs[1])
                                   \/ /\ IsDefined(lookupDelays(step).startDelay)
                                      /\ step.kind # SET_BROWSER_CONTENT
                                      /\ cs[1] = SleepCall(k, lookupDelays(step).startDelay[1])
                                      /\ Len(cs) >= 2 => IsMutation(cs[2])

\* C5 witness: a run is over that switched to the editor for its first step and
\* stayed there for its second.
C5_Witness ==
    \E r \in DOMAIN runs :
        /\ runs[r].pc = "done"
        /\ Len(runs[r].script.steps) >= 2
        /\ runs[r].script.steps[1].target = EDITOR
        /\ runs[r].script.steps[2].target = EDITOR
        /\ CallsOf(runs[r], 1)[1] = SetTargetCall(1, EDITOR)
        /\ CallsOf(runs[r], 2)[1].sink # "setTarget"

\* The calls of a target switch to tgt by step k, when the step before had
\* another target active.
SwitchCalls(stepSeq, k) ==
    IF stepSeq[k].target # TargetBefore(stepSeq, k)
    THEN <<SetTargetCall(k, stepSeq[k].target), SleepCall(k, 100)>>
    ELSE << >>

\* C6: a completed SET_BROWSER_CONTENT step with value v has made exactly these
\* calls, in order: the target switch if needed, setBrowserContent(''),
\* sleep(500), setBrowserContent(v), sleep(200); while it sleeps after the
\* second set the browser pane shows v.
C6_BrowserSwap ==
    \A r \in DOMAIN runs :
        LET run == runs[r]
        IN  \A k \in 1..Len(run.script.steps) :
              run.script.steps[k].kind = SET_BROWSER_CONTENT =>
                /\ Completed(run, k) =>
                      CallsOf(run, k) = SwitchCalls(run.script.steps, k) \o
                          << SetBrowserContentCall(k, << >>), SleepCall(k, 500),
                             SetBrowserContentCall(k, run.script.steps[k].value),
                             SleepCall(k, 200) >>
                /\ (run.i = k /\ run.pc = "browserClear") => browserContent = << >>
                /\ (run.i = k /\ run.pc = "browserSet") =>
                      browserContent = run.script.steps[k].value

\* C6 witness: a run has completed a SET_BROWSER_CONTENT step that needed no
\* target switch.
C6_Witness ==
    \E r \in DOMAIN runs : \E k \in 1..Len(runs[r].script.steps) :
        /\ runs[r].script.steps[k].kind = SET_BROWSER_CONTENT
        /\ Completed(runs[r], k)
        /\ Len(CallsOf(runs[r], k)) = 4
        /\ browserContent = runs[r].script.steps[k].value

\* The values of the REPL steps among the steps of ks (ascending), in order.
RECURSIVE ReplValues(_, _, _)
ReplValues(stepSeq, k, upTo) ==
    IF k > upTo THEN << >>
    ELSE (IF stepSeq[k].kind # SLEEP /\ stepSeq[k].target = REPL
          THEN stepSeq[k].value ELSE << >>) \o ReplValues(stepSeq, k + 1, upTo)

\* The number of steps of a run that have mutated their pane or slept: the
\* applied prefix of its script.
Applied(run) ==
    LET n == Len(run.script.steps)
    IN  IF run.i = 0 THEN 0
        ELSE IF run.i > n THEN n
        ELSE IF run.script.steps[run.i].kind # SLEEP /\ Mutated(run, run.i)
             THEN run.i ELSE run.i - 1

\* C7: REPL accumulation.  Whatever prefix of the script a run has applied, the
\* repl pane shows initialReplContent followed by the values of the REPL steps
\* of that prefix, in order, and every applied REPL step has published exactly
\* once, the buffer as it was after that step.
C7_ReplAccumulation ==
    \A r \in DOMAIN runs :
        LET run == runs[r]
            stepSeq == run.script.steps
        IN  /\ replContent = run.script.initialReplContent \o ReplValues(stepSeq, 1, Applied(run))
            /\ \A k \in 1..Applied(run) :
                  (stepSeq[k].kind # SLEEP /\ stepSeq[k].target = REPL) =>
                     MutationsOf(run, k) =
                        << SetReplContentCall(k, run.script.initialReplContent
                                                   \o ReplValues(stepSeq, 1, k)) >>

\* C7 witness: a run is over whose script has two REPL steps and a seeded
\* initialReplContent.
C7_Witness ==
    \E r \in DOMAIN runs :
        /\ runs[r].pc = "done"
        /\ runs[r].script.initialReplContent # << >>
        /\ Len(runs[r].script.steps) >= 2
        /\ runs[r].script.steps[1].target = REPL
        /\ runs[r].script.steps[2].target = REPL
        /\ Len(replContent) >= 3

\* The cursor <<lineNumber, columnIndex>> the cursor rule gives after the first
\* k steps of a script; InsertAt is where step k inserts.
RECURSIVE CursorAfter(_, _)
InsertAt(stepSeq, k) ==
    << Coalesce(stepSeq[k].startLineNumber, CursorAfter(stepSeq, k - 1)[1]),
       Coalesce(stepSeq[k].startColumnIndex, CursorAfter(stepSeq, k - 1)[2]) >>
CursorAfter(stepSeq, k) ==
    IF k = 0 THEN <<1, 1>>
    ELSE IF stepSeq[k].kind = SLEEP \/ stepSeq[k].target # EDITOR
         THEN CursorAfter(stepSeq, k - 1)
    ELSE IF stepSeq[k].kind = INSERT_NEWLINE
         THEN <<InsertAt(stepSeq, k)[1] + 1, 1>>
    ELSE <<InsertAt(stepSeq, k)[1], InsertAt(stepSeq, k)[2] + Len(stepSeq[k].value)>>

\* C8: editor cursor rule.  Every EDITOR step inserts its value at the empty
\* range (L, C) with L = startLineNumber ?? lineNumber and C = startColumnIndex
\* ?? columnIndex, the cursor starting at (1, 1); afterwards the cursor is at
\* (L + 1, 1) for INSERT_NEWLINE and at (L, C + length(value)) otherwise.
C8_EditorCursor ==
    \A r \in DOMAIN runs :
        LET run == runs[r]
            stepSeq == run.script.steps
        IN  /\ run.pc # "settle" =>
                  <<run.lineNumber, run.columnIndex>> = CursorAfter(stepSeq, Applied(run))
            /\ \A k \in 1..Applied(run) :
                  (stepSeq[k].kind # SLEEP /\ stepSeq[k].target = EDITOR) =>
                     MutationsOf(run, k) =
                        << ExecuteEditsCall(k, InsertAt(stepSeq, k)[1],
                                            InsertAt(stepSeq, k)[2], stepSeq[k].value) >>

\* C8 witness: a run is over whose second step, an EDITOR step without explicit
\* coordinates, inserted where the first EDITOR step (a newline) left the cursor.
C8_Witness ==
    \E r \in DOMAIN runs :
        /\ runs[r].pc = "done"
        /\ Len(runs[r].script.steps) >= 2
        /\ runs[r].script.steps[1].kind = INSERT_NEWLINE
        /\ runs[r].script.steps[1].target = EDITOR
        /\ runs[r].script.steps[2].target = EDITOR
        /\ runs[r].script.steps[2].startLineNumber = Undefined
        /\ runs[r].script.steps[2].startColumnIndex = Undefined
        /\ MutationsOf(runs[r], 2)[1].line = 2
        /\ MutationsOf(runs[r], 2)[1].col = 1

Values(stepSeq) == [n \in DOMAIN stepSeq |-> stepSeq[n].value]

HasDelimiter(t) == \E n \in DOMAIN t : t[n] \in {leftPasteDel, rightPasteDel}

\* C9: tokenizer round trip.  On a text without paste delimiters stepsForText
\* never throws, the values of the steps pushed so far spell the text scanned
\* so far, and the values of the steps returned spell the whole text.
C9_RoundTrip ==
    ~HasDelimiter(text) =>
        /\ tokState \in {"idle", "scan", "returned"}
        /\ Concat(Values(steps)) = SubSeq(text, 1, currentIndex)
        /\ tokState = "returned" => Concat(Values(steps)) = text

\* C9 witness: stepsForText has returned on a text with a leading run of two
\* spaces, a newline and a trailing space.
C9_Witness ==
    /\ tokState = "returned"
    /\ ~HasDelimiter(text)
    /\ Len(text) >= 4
    /\ text[1] = SP /\ text[2] = SP
    /\ text[Len(text)] = SP
    /\ \E n \in DOMAIN text : text[n] = NL
    /\ Len(steps) < Len(text)

AllSpaces(value) == value # << >> /\ \A n \in DOMAIN value : value[n] = SP

\* The text a step stands for: a pasted step stands for its value between the
\* paste delimiters.
Spelled(step) ==
    IF step.kind = INSERT_PASTED_TEXT
    THEN <<leftPasteDel>> \o step.value \o <<rightPasteDel>>
    ELSE step.value

\* C10: space-run absorption.  The steps stepsForText returns spell the text;
\* outside pastes, a step is a newline step holding one newline, or a text step
\* holding a run of spaces, or a text step holding one character that is no
\* space and no newline; and no two neighbouring steps both hold spaces, so
\* each maximal run of spaces is one step.
C10_SpaceRuns ==
    tokState = "returned" =>
        /\ Concat([n \in DOMAIN steps |-> Spelled(steps[n])]) = text
        /\ \A n \in DOMAIN steps :
              /\ steps[n].kind \in {INSERT_TEXT, INSERT_NEWLINE, INSERT_PASTED_TEXT}
              /\ steps[n].kind = INSERT_NEWLINE => steps[n].value = <<NL>>
              /\ steps[n].kind = INSERT_TEXT =>
                    \/ AllSpaces(steps[n].value)
                    \/ /\ Len(steps[n].value) = 1
                       /\ steps[n].value[1] \notin {SP, NL, leftPasteDel}
        /\ \A n \in 1..(Len(steps) - 1) :
              ~(/\ steps[n].kind = INSERT_TEXT /\ AllSpaces(steps[n].value)
                /\ steps[n + 1].kind = INSERT_TEXT /\ AllSpaces(steps[n + 1].value))

\* C10 witness: stepsForText has returned on a text holding a run of two
\* spaces, a newline and a paste, with one step for the run.
C10_Witness ==
    /\ tokState = "returned"
    /\ \E n \in DOMAIN steps : steps[n].kind = INSERT_TEXT /\ steps[n].value = <<SP, SP>>
    /\ \E n \in DOMAIN steps : steps[n].kind = INSERT_NEWLINE
    /\ \E n \in DOMAIN steps : steps[n].kind = INSERT_PASTED_TEXT

\* The scan is about to read a left paste delimiter.
AtPaste == tokState = "scan" /\ peek(text, currentIndex) = <<leftPasteDel>>

\* Position j (1-based) holds the first c-or-d character after the delimiter
\* the scan is about to read.
FirstAfterOpen(j, cs) ==
    /\ j \in (currentIndex + 2)..Len(text)
    /\ text[j] \in cs
    /\ \A m \in (currentIndex + 2)..(j - 1) : text[m] \notin cs

\* C11: paste tokenization.  When the scan reads a left delimiter and the first
\* right delimiter after it comes with no newline before it, the next step of
\* the scan pushes exactly one INSERT_PASTED_TEXT step whose value is the text
\* strictly between the two delimiters, whatever it holds, and resumes just
\* after that right delimiter.
C11_PasteStep ==
    [][ \A j \in DOMAIN text :
          (/\ AtPaste
           /\ FirstAfterOpen(j, {rightPasteDel, NL})
           /\ text[j] = rightPasteDel) =>
             /\ steps' = Append(steps, DeltaStep(INSERT_PASTED_TEXT, tokTarget,
                                    SubSeq(text, currentIndex + 2, j - 1),
                                    Undefined, Undefined))
             /\ currentIndex' = j
             /\ tokState' = "scan" ]_vars

\* C11 witness: stepsForText has returned a pasted step holding a space and a
\* left delimiter, followed by a step for the text after the paste.
C11_Witness ==
    /\ tokState = "returned"
    /\ \E n \in DOMAIN steps :
          /\ steps[n].kind = INSERT_PASTED_TEXT
          /\ steps[n].value = <<SP, leftPasteDel>>
          /\ n < Len(steps)

\* C12: unterminated paste.  When the scan reads a left delimiter and neither
\* a right delimiter nor a newline follows, stepsForText throws "Unterminated
\* paste": no step is pushed and nothing is ever returned.
C12_UnterminatedPaste ==
    [][ /\ (/\ AtPaste
            /\ \A m \in (currentIndex + 2)..Len(text) : text[m] \notin {rightPasteDel, NL}) =>
              /\ tokState' = "Unterminated paste"
              /\ steps' = steps
        /\ tokState = "Unterminated paste" => tokState' = "Unterminated paste" ]_vars

\* C12 witness: stepsForText has thrown "Unterminated paste" after it had
\* pushed steps.
C12_Witness ==
    /\ tokState = "Unterminated paste"
    /\ steps # << >>

\* C13: newline in paste.  When the scan reads a left delimiter and a newline
\* follows with no right delimiter before it, stepsForText throws "Newline not
\* allowed in paste", also when no right delimiter follows at all: no step is
\* pushed and nothing is ever returned.
C13_NewlineInPaste ==
    [][ /\ \A j \in DOMAIN text :
              (/\ AtPaste
               /\ FirstAfterOpen(j, {rightPasteDel, NL})
               /\ text[j] = NL) =>
                 /\ tokState' = "Newline not allowed in paste"
                 /\ steps' = steps
        /\ tokState = "Newline not allowed in paste" =>
              tokState' = "Newline not allowed in paste" ]_vars

\* C13 witness: stepsForText has thrown "Newline not allowed in paste" on a
\* text without any right delimiter, after it had pushed steps.
C13_Witness ==
    /\ tokState = "Newline not allowed in paste"
    /\ \A n \in DOMAIN text : text[n] # rightPasteDel
    /\ steps # << >>

\* C14: only the first step of a batch carries a position.  No step carries a
\* position while the scan runs; in the returned steps the first carries the
\* startLineNumber and startColumnIndex supplied and no later step carries
\* either; every step has the target supplied and a kind among INSERT_TEXT,
\* INSERT_NEWLINE and INSERT_PASTED_TEXT; the empty text gives no step.
C14_FirstStepPosition ==
    /\ \A n \in DOMAIN steps :
          /\ steps[n].target = tokTarget
          /\ steps[n].kind \in {INSERT_TEXT, INSERT_NEWLINE, INSERT_PASTED_TEXT}
          /\ (n > 1 \/ tokState # "returned") =>
                /\ steps[n].startLineNumber = Undefined
                /\ steps[n].startColumnIndex = Undefined
    /\ (tokState = "returned" /\ steps # << >>) =>
          /\ steps[1].startLineNumber = startLineNumber
          /\ steps[1].startColumnIndex = startColumnIndex
    /\ (tokState = "returned" /\ text = << >>) => steps = << >>

\* C14 witness: stepsForText(text, REPL, 3, 5) has returned two steps or more.
C14_Witness ==
    /\ tokState = "returned"
    /\ tokTarget = REPL
    /\ startLineNumber = Some(3)
    /\ startColumnIndex = Some(5)
    /\ Len(steps) >= 2
    /\ steps[1].startLineNumber = Some(3)

\* C15: the delay policy table.  INSERT_NEWLINE: endDelay 60 and no startDelay;
\* INSERT_PASTED_TEXT: startDelay 300 and endDelay 100 whatever the value;
\* INSERT_TEXT of one character: endDelay 110 for a space, startDelay 80 and
\* endDelay 60 for a parenthesis, endDelay 60 alone for any other character;
\* INSERT_TEXT of any other length: no delay at all.
C15_DelayTable ==
    delaysResult # << >> =>
        LET d == delaysResult[1]
            v == delayStep.value
        IN  /\ delayStep.kind = INSERT_NEWLINE =>
                  d.startDelay = Undefined /\ d.endDelay = <<60>>
            /\ delayStep.kind = INSERT_PASTED_TEXT =>
                  d.startDelay = <<300>> /\ d.endDelay = <<100>>
            /\ (delayStep.kind = INSERT_TEXT /\ v = <<SP>>) =>
                  d.startDelay = Undefined /\ d.endDelay = <<110>>
            /\ (delayStep.kind = INSERT_TEXT /\ v \in {<<"(">>, <<")">>}) =>
                  d.startDelay = <<80>> /\ d.endDelay = <<60>>
            /\ (delayStep.kind = INSERT_TEXT /\ Len(v) = 1 /\ v[1] \notin {SP, "(", ")"}) =>
                  d.startDelay = Undefined /\ d.endDelay = <<60>>
            /\ (delayStep.kind = INSERT_TEXT /\ Len(v) # 1) =>
                  d.startDelay = Undefined /\ d.endDelay = Undefined

\* C15 witness: lookupDelays has returned for an INSERT_TEXT step holding a run
\* of two spaces.
C15_Witness ==
    /\ delaysResult # << >>
    /\ delayStep.kind = INSERT_TEXT
    /\ delayStep.value = <<SP, SP>>
    /\ delaysResult[1] = Delays(Undefined, Undefined)

\* The sleep a delay of the policy asks for in step k: none when undefined.
DelayCalls(k, delay) == IF IsDefined(delay) THEN <<SleepCall(k, delay[1])>> ELSE << >>

IsPaneCall(c) == c.sink \notin {"sleep", "setTarget"}

\* C17: the order within an EDITOR or REPL step.  The calls of such a step are,
\* in this order: the target switch with its 100ms sleep if needed, the sleep
\* of the startDelay if defined, the calls on the pane (the mutation first),
\* the sleep of the endDelay if defined; no call of a later step is made
\* before; and every run starts with the 300ms settle sleep, before which it
\* has made no other call.
C17_StepOrder ==
    \A r \in DOMAIN runs :
        LET run == runs[r]
            n == Len(run.script.steps)
        IN  /\ run.calls[1] = SleepCall(0, 300)
            /\ CallsOf(run, 0) = <<SleepCall(0, 300)>>
            /\ run.pc = "settle" => Len(run.calls) = 1
            /\ \A a \in DOMAIN run.calls : run.calls[a].step <= run.i
            /\ \A k \in 1..n :
                  (run.script.steps[k].kind \in {INSERT_TEXT, INSERT_NEWLINE, INSERT_PASTED_TEXT}
                   /\ k <= run.i) =>
                     LET step == run.script.steps[k]
                         cs == CallsOf(run, k)
                         before == SwitchCalls(run.script.steps, k)
                                      \o DelayCalls(k, lookupDelays(step).startDelay)
                         body == SelectSeq(cs, IsPaneCall)
                         after == DelayCalls(k, lookupDelays(step).endDelay)
                     IN  /\ body = << >> => IsPrefix(cs, before)
                         /\ body # << >> =>
                               /\ IsMutation(body[1])
                               /\ IsPrefix(before \o body, cs)
                               /\ IsPrefix(cs, before \o body \o after)
                         /\ (Completed(run, k) \/ run.pc = "endDelay") =>
                               /\ body # << >>
                               /\ cs = before \o body \o after

\* C17 witness: a run is over whose second step, a paste into the editor after
\* a REPL step, switched, slept 100ms, slept its startDelay, edited, and slept
\* its endDelay.
C17_Witness ==
    \E r \in DOMAIN runs :
        /\ runs[r].pc = "done"
        /\ Len(runs[r].script.steps) >= 2
        /\ runs[r].script.steps[1].target = REPL
        /\ runs[r].script.steps[2].kind = INSERT_PASTED_TEXT
        /\ Sinks(CallsOf(runs[r], 2)) =
              <<"setTarget", "sleep", "sleep", "executeEdits", "addition", "fake-cursor", "sleep">>

FakeCursors == {d \in editorDecorations : d.cls = "fake-cursor"}

\* C18 (as claimed): the fake-cursor decoration is replaced, not accumulated.
\* The editor holds at most one fake-cursor decoration at any time; once a run
\* has made its fake-cursor call for an EDITOR step and until its next one,
\* the editor holds the decoration of that call, on the inserted range; and
\* each fake-cursor call of a run passes the handle the previous one returned
\* (the empty handle for the first).
C18_OneFakeCursor ==
    /\ Cardinality(FakeCursors) <= 1
    /\ \A r \in DOMAIN runs :
          LET run == runs[r]
              IsCursorCall(c) == c.sink = "fake-cursor"
              cursorCalls == SelectSeq(run.calls, IsCursorCall)
          IN  /\ \A a \in DOMAIN cursorCalls :
                    cursorCalls[a].old =
                        IF a = 1 THEN {} ELSE {<<r, cursorCalls[a - 1].step, "fake-cursor">>}
              /\ cursorCalls # << >> =>
                    LET last == cursorCalls[Len(cursorCalls)]
                    IN  /\ run.decorations = {<<r, last.step, "fake-cursor">>}
                        /\ Decoration(r, last.step, "fake-cursor", last.line, last.col,
                                      last.col + Len(run.script.steps[last.step].value))
                              \in FakeCursors

\* C19 (as claimed): no mutation after unmount.  Once the component is
\* unmounted no run resumes, so no call is made on the active-pane signal,
\* the editor, the repl or the browser any more.
C19_NoMutationAfterUnmount ==
    [][ ~mounted => UNCHANGED <<runs, target, replContent, browserContent,
                                editorDecorations>> ]_vars

\* C16: replay determinism.  A fresh instance that plays the script an earlier
\* instance has played makes the same calls with the same arguments in the
\* same order, and ends with the same locals, the same active pane, the same
\* repl and browser contents and the same editor decorations.
C16_ReplayDeterminism ==
    (previous # << >> /\ runs # << >>) =>
        /\ IsPrefix(runs[1].calls, previous[1].run.calls)
        /\ runs[1].pc = "done" =>
              /\ runs[1] = previous[1].run
              /\ target = previous[1].target
              /\ replContent = previous[1].replContent
              /\ browserContent = previous[1].browserContent
              /\ editorDecorations = previous[1].editorDecorations

\* C16 witness: the second instance has finished a script with an editor step
\* that moved the cursor and a REPL step.
C16_Witness ==
    /\ previous # << >>
    /\ runs # << >>
    /\ runs[1].pc = "done"
    /\ Len(script.steps) >= 2
    /\ script.steps[1].target = EDITOR
    /\ script.steps[2].target = REPL
    /\ runs[1].columnIndex > 1
    /\ replContent # script.initialReplContent

\* The calls run r makes in the step from this state to the next.
NewCalls(r) == SubSeq(runs'[r].calls, Len(runs[r].calls) + 1, Len(runs'[r].calls))

IsEditorCall(c) == c.sink \in {"executeEdits", "addition", "fake-cursor"}

\* What a resumption of run r may change while the run is inside a step: at a
\* SLEEP step nothing of the cursor, the repl buffer, the decoration handle and
\* the panes, and the active pane only through the setTarget of the step that
\* follows; at a REPL or SET_BROWSER_CONTENT step nothing of the editor: its
\* cursor, its decorations, no call on it.
StepFrame(r) ==
    LET run == runs[r]
        next == runs'[r]
        k == run.i
        step == run.script.steps[k]
        new == NewCalls(r)
    IN  /\ run.pc # "done"
        /\ IsPrefix(run.calls, next.calls)
        /\ (k \in DOMAIN run.script.steps /\ step.kind = SLEEP) =>
              /\ next.lineNumber = run.lineNumber
              /\ next.columnIndex = run.columnIndex
              /\ next.newRepl = run.newRepl
              /\ next.decorations = run.decorations
              /\ UNCHANGED <<replContent, browserContent, editorDecorations>>
              /\ \A n \in DOMAIN new : new[n].step = k + 1
              /\ IF next.currentTarget # run.currentTarget
                 THEN /\ new # << >>
                      /\ new[1] = SetTargetCall(k + 1, next.currentTarget)
                      /\ target' = next.currentTarget
                 ELSE target' = target
        /\ (k \in DOMAIN run.script.steps /\ step.kind # SLEEP
              /\ (step.kind = SET_BROWSER_CONTENT \/ step.target # EDITOR)) =>
              /\ next.lineNumber = run.lineNumber
              /\ next.columnIndex = run.columnIndex
              /\ next.decorations = run.decorations
              /\ UNCHANGED editorDecorations
              /\ \A n \in DOMAIN new : new[n].step = k => ~IsEditorCall(new[n])

\* A run that is over: it has left its last step behind, and every step has
\* made its calls, a SLEEP step its one sleep and nothing else.
Finished(run) ==
    /\ run.pc = "done"
    /\ run.i = Len(run.script.steps) + 1
    /\ \A k \in DOMAIN run.script.steps :
          IF run.script.steps[k].kind = SLEEP
          THEN CallsOf(run, k) = <<SleepCall(k, run.script.steps[k].duration)>>
          ELSE Mutated(run, k)

\* C20: termination and frame.  With every timer firing, a started run ends
\* having applied every step up to the last, and from then on makes no call
\* and changes no pane; on the way a SLEEP step makes its one sleep call and
\* changes neither cursor, repl buffer, decoration handle nor pane, and a REPL
\* or SET_BROWSER_CONTENT step leaves the editor cursor where it was, with or
\* without startLineNumber/startColumnIndex.
C20_TerminationAndFrame ==
    /\ (Len(runs) = 1) ~> (Len(runs) = 1 /\ Finished(runs[1]))
    /\ [][ (Len(runs) = 1 /\ runs[1].pc = "done") =>
              UNCHANGED <<runs, target, replContent, browserContent, editorDecorations>> ]_vars
    /\ [][ \A r \in DOMAIN runs :
              (r \in DOMAIN runs' /\ runs'[r] # runs[r]) => StepFrame(r) ]_vars

\* C20 witness: a run is over whose editor step left the cursor at column 7
\* and whose REPL step carried the coordinates (1, 1).
C20_Witness ==
    /\ Len(runs) = 1
    /\ Finished(runs[1])
    /\ Len(script.steps) = 2
    /\ script.steps[1].kind # SLEEP
    /\ script.steps[1].target = EDITOR
    /\ script.steps[2].kind # SLEEP
    /\ script.steps[2].target = REPL
    /\ IsDefined(script.steps[2].startLineNumber)
    /\ IsDefined(script.steps[2].startColumnIndex)
    /\ runs[1].columnIndex # script.steps[2].startColumnIndex[1]
    /\ runs[1].columnIndex # script.steps[2].startColumnIndex[1] + Len(script.steps[2].value)

====
